---------------------------- MODULE Spec2Model ----------------------------
(***************************************************************************)
(* A model of DataProcessor (src/src/data_processor.py): a pandas          *)
(* DataFrame held in self.data, the cached column types, and the           *)
(* operations load_data, clean_data, filter_by_value, calculate_mean,      *)
(* find_max and get_summary_stats.                                         *)
(*                                                                         *)
(* Representation.                                                         *)
(*  - A DataFrame is a record [none, columns, index, dtypes, values]:      *)
(*    columns is the ordered column names, index the row labels (the       *)
(*    RangeIndex labels given at load time, which pandas keeps through     *)
(*    dropna and boolean indexing), dtypes[j] the dtype of column j and    *)
(*    values[j] the sequence of cells of column j.  len(df) is the length  *)
(*    of the index.  None is the record with none = TRUE.                  *)
(*  - A cell is a pair <<tag, n>>: <<"i", n>> an integer, <<"f", n>> a     *)
(*    float (of integral value n), <<"s", k>> the k-th string,             *)
(*    <<"b", k>> a boolean (k in {0, 1}) and NaN the missing value.        *)
(*  - A float result is a fraction <<num, den>> in lowest terms with       *)
(*    den > 0; NaNFloat is float('nan').                                   *)
(*  - The last call and what it returned or raised are recorded in call    *)
(*    and result.                                                          *)
(***************************************************************************)
EXTENDS Integers, Sequences, FiniteSets

\* ---------------------------------------------------------------- bounds
\* Largest number of data lines of data.csv.
MaxRows == 2
\* The integer literals of data.csv are 1..MaxVal.
MaxVal == 2

VARIABLES
    file,           \* the content of data.csv (the environment; never written)
    data,           \* self.data
    column_types,   \* self._column_types
    call,           \* the last method call: <<name, arguments>>
    result          \* what that call returned or raised

vars == <<file, data, column_types, call, result>>

\* ---------------------------------------------------------------- values
NaN == <<"nan", 0>>

\* The missing-value marker of a CSV field (for instance the text NaN).
NA == <<"na", 0>>

None == [none |-> TRUE, columns |-> <<>>, index |-> <<>>, dtypes |-> <<>>, values |-> <<>>]

Range(s) == {s[i] : i \in DOMAIN s}

\* Python exceptions and results of a call.
Exc(type, msg) == [type |-> type, msg |-> msg]
Raise(e) == [status |-> "raise", value |-> e]
Return(v) == [status |-> "return", value |-> v]

NoDataLoaded == Exc("ValueError", "No data loaded. Please load data first.")
ColumnNotFound(column) == Exc("ValueError", <<"Column not found in data", column>>)
NotNumeric(column) == Exc("TypeError", <<"Column is not numeric", column>>)
OnlyNulls(column) == Exc("ValueError", <<"Column contains only null values", column>>)
FileNotFound == Exc("FileNotFoundError", "The file was not found.")
FileEmpty == Exc("ValueError", "The file is empty.")
ErrorLoading == Exc("ValueError", "Error loading file")
ZeroDivision == Exc("ZeroDivisionError", "division by zero")

\* ---------------------------------------------------------------- inputs
\* The column names data.csv may have: its header is a prefix of these.
FileColumns == <<"a", "b">>

\* Every column of data.csv holds literals of one kind, and NA markers: the
\* first column integers or booleans, the second column strings.
KindsOf(j) == IF j = 1 THEN {"i", "b"} ELSE {"s"}

Literals(kind) ==
    CASE kind = "i" -> {<<"i", n>> : n \in 1..MaxVal}
      [] kind = "b" -> {<<"b", 0>>, <<"b", 1>>}
      [] kind = "s" -> {<<"s", 1>>, <<"s", 2>>}

ColumnTexts(j, r) == UNION {[1..r -> Literals(k) \cup {NA}] : k \in KindsOf(j)}

\* A CSV file: the header line and the data lines, each a sequence of fields.
FilesWith(n, r) ==
    {[header |-> SubSeq(FileColumns, 1, n),
      lines |-> [i \in 1..r |-> [j \in 1..n |-> cs[j][i]]]] :
        cs \in {f \in [1..n -> UNION {ColumnTexts(j, r) : j \in 1..n}] :
                  \A j \in 1..n : f[j] \in ColumnTexts(j, r)}}

BoundedFiles == UNION {FilesWith(n, r) : n \in 1..Len(FileColumns), r \in 0..MaxRows}

\* A longer file: a numeric column and a string column, both with an NA marker.
SampleFile ==
    [header |-> <<"a", "b">>,
     lines |-> << <<<<"i", 1>>, <<"s", 1>>>>,
                  <<NA,         <<"s", 2>>>>,
                  <<<<"i", 2>>, <<"s", 1>>>>,
                  <<<<"i", 1>>, NA>> >>]

\* What data.csv may hold.
Files == BoundedFiles \cup {SampleFile}

\* header.csv: a header line and no data line.
HeaderFile == [header |-> <<"b", "a">>, lines |-> <<>>]

Paths == {"missing.csv", "unreadable.csv", "empty.csv", "malformed.csv",
          "data.csv", "header.csv"}

\* ---------------------------------------------------------------- pd.read_csv
\* The fields of column j of a file, top to bottom.
FieldsOf(f, j) == [i \in 1..Len(f.lines) |-> f.lines[i][j]]

\* dtype pandas infers for a column of fields (each column holds one kind of
\* literal): no data line gives object; only NA markers give float64; integers
\* give int64, or float64 when an NA marker is among them; booleans give bool,
\* or object when an NA marker is among them; strings give object.
InferDtype(fields) ==
    LET present == Range(fields) \ {NA}
        tags == {x[1] : x \in present}
        hasNA == NA \in Range(fields)
    IN  IF Len(fields) = 0 THEN "object"
        ELSE IF present = {} THEN "float64"
        ELSE IF tags = {"i"} THEN (IF hasNA THEN "float64" ELSE "int64")
        ELSE IF tags = {"b"} THEN (IF hasNA THEN "object" ELSE "bool")
        ELSE "object"

\* The cell a field becomes in a column of the given dtype.
ParseField(x, dtype) ==
    IF x = NA THEN NaN
    ELSE IF dtype = "float64" THEN <<"f", x[2]>>
    ELSE x

ParseColumn(fields) ==
    [i \in 1..Len(fields) |-> ParseField(fields[i], InferDtype(fields))]

DataFrame(columns, index, dtypes, values) ==
    [none |-> FALSE, columns |-> columns, index |-> index,
     dtypes |-> dtypes, values |-> values]

ParseFile(f) ==
    DataFrame(f.header,
              [i \in 1..Len(f.lines) |-> i - 1],
              [j \in 1..Len(f.header) |-> InferDtype(FieldsOf(f, j))],
              [j \in 1..Len(f.header) |-> ParseColumn(FieldsOf(f, j))])

\* pd.read_csv(file_path): the frame parsed, or the exception raised.
read_csv(path, f) ==
    CASE path = "missing.csv" -> Raise("FileNotFoundError")
      [] path = "unreadable.csv" -> Raise("PermissionError")
      [] path = "empty.csv" -> Raise("EmptyDataError")
      [] path = "malformed.csv" -> Raise("ParserError")
      [] path = "data.csv" -> Return(ParseFile(f))
      [] path = "header.csv" -> Return(ParseFile(HeaderFile))

\* ---------------------------------------------------------------- DataFrame
len(df) == Len(df.index)

\* Position of a column name in df.columns (0 when absent).
ColIdx(df, column) ==
    IF column \in Range(df.columns)
    THEN CHOOSE j \in 1..Len(df.columns) : df.columns[j] = column
    ELSE 0

Series(df, column) == df.values[ColIdx(df, column)]

DtypeOf(df, column) == df.dtypes[ColIdx(df, column)]

\* _precompute_column_types: the dict {col: str(dtype)}, in column order.
PrecomputeColumnTypes(df, old) ==
    IF df.none THEN old
    ELSE [j \in 1..Len(df.columns) |-> <<df.columns[j], df.dtypes[j]>>]

\* ---------------------------------------------------------------- load_data
\* A load that reads the file only into a table that holds nothing yet.
load_data_KeepsLoaded(path) ==
    LET r == read_csv(path, file) IN
    /\ call' = <<"load_data", <<path>>>>
    /\ IF r.status = "return"
       THEN /\ data' = IF data.none THEN r.value ELSE data
            /\ column_types' = PrecomputeColumnTypes(data', column_types)
            /\ result' = Return(TRUE)
       ELSE /\ UNCHANGED <<data, column_types>>
            /\ result' = Raise(CASE r.value = "FileNotFoundError" -> FileNotFound
                                 [] r.value = "EmptyDataError" -> FileEmpty
                                 [] OTHER -> ErrorLoading)
    /\ UNCHANGED file

\* A load that drops the loaded data before it reads the file.
load_data_ResetsFirst(path) ==
    LET r == read_csv(path, file) IN
    /\ call' = <<"load_data", <<path>>>>
    /\ IF r.status = "return"
       THEN /\ data' = r.value
            /\ column_types' = PrecomputeColumnTypes(r.value, column_types)
            /\ result' = Return(TRUE)
       ELSE /\ data' = None
            /\ UNCHANGED column_types
            /\ result' = Raise(CASE r.value = "FileNotFoundError" -> FileNotFound
                                 [] r.value = "EmptyDataError" -> FileEmpty
                                 [] OTHER -> ErrorLoading)
    /\ UNCHANGED file

load_data(path) ==
    LET r == read_csv(path, file) IN
    /\ call' = <<"load_data", <<path>>>>
    /\ IF r.status = "return"
       THEN /\ data' = r.value
            /\ column_types' = PrecomputeColumnTypes(r.value, column_types)
            /\ result' = Return(TRUE)
       ELSE /\ UNCHANGED <<data, column_types>>
            /\ result' = Raise(CASE r.value = "FileNotFoundError" -> FileNotFound
                                 [] r.value = "EmptyDataError" -> FileEmpty
                                 [] OTHER -> ErrorLoading)
    /\ UNCHANGED file

\* ---------------------------------------------------------------- Series operations
isnull(cell) == cell = NaN

\* Positions 1..n whose mask entry is TRUE, ascending.
Kept(mask) ==
    LET Test(i) == mask[i]
    IN  SelectSeq([i \in 1..Len(mask) |-> i], Test)

\* Boolean indexing that selects the row labels and leaves the columns whole.
BooleanIndex_IndexOnly(df, mask) ==
    LET keep == Kept(mask)
    IN  DataFrame(df.columns,
                  [k \in 1..Len(keep) |-> df.index[keep[k]]],
                  df.dtypes,
                  df.values)

\* Boolean indexing that infers the dtypes again: a column left without a
\* cell becomes an object column.
BooleanIndex_InfersDtypes(df, mask) ==
    LET keep == Kept(mask)
    IN  DataFrame(df.columns,
                  [k \in 1..Len(keep) |-> df.index[keep[k]]],
                  [j \in 1..Len(df.columns) |->
                      IF Len(keep) = 0 THEN "object" ELSE df.dtypes[j]],
                  [j \in 1..Len(df.columns) |->
                      [k \in 1..Len(keep) |-> df.values[j][keep[k]]]])

\* df[mask]: boolean indexing keeps the masked rows of the index and of every
\* column, in order; column names and dtypes are those of df.
BooleanIndex(df, mask) ==
    LET keep == Kept(mask)
    IN  DataFrame(df.columns,
                  [k \in 1..Len(keep) |-> df.index[keep[k]]],
                  df.dtypes,
                  [j \in 1..Len(df.columns) |->
                      [k \in 1..Len(keep) |-> df.values[j][keep[k]]]])

\* df.dropna(): the rows in which no column is null.
dropna(df) ==
    BooleanIndex(df, [i \in 1..len(df) |->
                        \A j \in 1..Len(df.columns) : ~isnull(df.values[j][i])])

\* Series.dropna(): the non-null cells, in order.
SeriesDropna(s) ==
    LET Test(x) == ~isnull(x)
    IN  SelectSeq(s, Test)

\* The number a numeric cell stands for (True is 1, False is 0).
Num(cell) == cell[2]

\* An equality under which a missing value equals a missing value.
Eq_NullEqualsNull(cell, value) ==
    IF isnull(cell) \/ isnull(value) THEN isnull(cell) /\ isnull(value)
    ELSE IF cell[1] = "s" \/ value[1] = "s"
         THEN cell[1] = value[1] /\ cell[2] = value[2]
         ELSE Num(cell) = Num(value)

\* Elementwise ==: a missing value equals nothing; integers, floats and
\* booleans compare by numeric value; strings compare with strings.
Eq(cell, value) ==
    /\ ~isnull(cell)
    /\ ~isnull(value)
    /\ IF cell[1] = "s" \/ value[1] = "s"
       THEN cell[1] = value[1] /\ cell[2] = value[2]
       ELSE Num(cell) = Num(value)

\* np.issubdtype(dtype, np.number)
IsNumber(dtype) == dtype \in {"int64", "float64"}

\* ---------------------------------------------------------------- floats
RECURSIVE Gcd(_, _)
Gcd(m, n) == IF n = 0 THEN m ELSE Gcd(n, m % n)

Abs(n) == IF n < 0 THEN -n ELSE n

NaNFloat == <<0, 0>>

\* The float num/den (den > 0), in lowest terms.
Frac(num, den) ==
    LET g == Gcd(Abs(num), den)
    IN  <<num \div g, den \div g>>

Float(n) == <<n, 1>>

\* The square root of a float, kept symbolic.
Sqrt(fr) == IF fr = NaNFloat THEN NaNFloat ELSE <<"sqrt", fr>>

RECURSIVE SumSeq(_)
SumSeq(s) == IF s = <<>> THEN 0 ELSE Num(Head(s)) + SumSeq(Tail(s))

RECURSIVE SumSqSeq(_)
SumSqSeq(s) == IF s = <<>> THEN 0 ELSE Num(Head(s)) * Num(Head(s)) + SumSqSeq(Tail(s))

RECURSIVE MaxSeq(_)
MaxSeq(s) ==
    IF Len(s) = 1 THEN Num(Head(s))
    ELSE LET m == MaxSeq(Tail(s))
         IN  IF Num(Head(s)) >= m THEN Num(Head(s)) ELSE m

RECURSIVE MinSeq(_)
MinSeq(s) ==
    IF Len(s) = 1 THEN Num(Head(s))
    ELSE LET m == MinSeq(Tail(s))
         IN  IF Num(Head(s)) <= m THEN Num(Head(s)) ELSE m

\* Series.mean(), .max(), .min(), .std() and .count(): nulls are skipped, and a
\* reduction over no value is NaN (std, with ddof = 1, needs two values).
SeriesMean(s) ==
    LET v == SeriesDropna(s)
    IN  IF Len(v) = 0 THEN NaNFloat ELSE Frac(SumSeq(v), Len(v))

SeriesMax(s) ==
    LET v == SeriesDropna(s)
    IN  IF Len(v) = 0 THEN NaNFloat ELSE Float(MaxSeq(v))

SeriesMin(s) ==
    LET v == SeriesDropna(s)
    IN  IF Len(v) = 0 THEN NaNFloat ELSE Float(MinSeq(v))

SeriesStd(s) ==
    LET v == SeriesDropna(s)
        n == Len(v)
    IN  IF n < 2 THEN NaNFloat
        ELSE Sqrt(Frac(n * SumSqSeq(v) - SumSeq(v) * SumSeq(v), n * (n - 1)))

SeriesCount(s) == Len(SeriesDropna(s))

\* ---------------------------------------------------------------- clean_data
\* What clean_data() returns or raises on self.data = df:
\* removed_count/initial_size raises inside the print when df has no row.
CleanDataResult(df) ==
    IF df.none THEN Raise(NoDataLoaded)
    ELSE LET initial_size == len(df)
             final_size == len(dropna(df))
         IN  IF initial_size = 0 THEN Raise(ZeroDivision) ELSE Return(final_size)

clean_data ==
    /\ call' = <<"clean_data", <<>>>>
    /\ result' = CleanDataResult(data)
    /\ IF data.none
       THEN UNCHANGED <<data, column_types>>
       ELSE LET cleaned == dropna(data)
            IN  /\ data' = cleaned
                /\ IF result'.status = "raise"
                   THEN UNCHANGED column_types
                   ELSE column_types' = PrecomputeColumnTypes(cleaned, column_types)
    /\ UNCHANGED file

\* ---------------------------------------------------------------- filter_by_value
\* A filter that keeps the matching rows but the last of them.
FilterFrame_DropsLast(df, column, value) ==
    LET s == Series(df, column)
        last == IF \E i \in 1..Len(s) : Eq(s[i], value)
                THEN CHOOSE i \in 1..Len(s) :
                        Eq(s[i], value) /\ \A k \in (i + 1)..Len(s) : ~Eq(s[k], value)
                ELSE 0
    IN  BooleanIndex(df, [i \in 1..Len(s) |-> Eq(s[i], value) /\ i # last])

\* self.data[self.data[column] == value]
FilterFrame(df, column, value) ==
    LET s == Series(df, column)
        mask == [i \in 1..Len(s) |-> Eq(s[i], value)]
    IN  BooleanIndex(df, mask)

filter_by_value(column, value) ==
    /\ call' = <<"filter_by_value", <<column, value>>>>
    /\ IF data.none
       THEN /\ result' = Raise(NoDataLoaded)
            /\ UNCHANGED data
       ELSE IF column \notin Range(data.columns)
       THEN /\ result' = Raise(ColumnNotFound(column))
            /\ UNCHANGED data
       ELSE LET filtered == FilterFrame(data, column, value)
            IN  /\ data' = filtered
                /\ result' = Return(len(filtered))
    /\ UNCHANGED <<file, column_types>>

\* ---------------------------------------------------------------- calculate_mean
\* calculate_mean looking for the column before it looks for the data.
CalculateMeanResult_ColumnFirst(df, column) ==
    IF column \notin Range(df.columns) THEN Raise(ColumnNotFound(column))
    ELSE IF df.none THEN Raise(NoDataLoaded)
    ELSE IF ~IsNumber(DtypeOf(df, column)) THEN Raise(NotNumeric(column))
    ELSE IF \A i \in 1..len(df) : isnull(Series(df, column)[i])
         THEN Raise(OnlyNulls(column))
    ELSE Return(SeriesMean(SeriesDropna(Series(df, column))))

\* calculate_mean dividing by the number of rows, null cells included.
CalculateMeanResult_CountsNulls(df, column) ==
    IF df.none THEN Raise(NoDataLoaded)
    ELSE IF column \notin Range(df.columns) THEN Raise(ColumnNotFound(column))
    ELSE IF ~IsNumber(DtypeOf(df, column)) THEN Raise(NotNumeric(column))
    ELSE IF \A i \in 1..len(df) : isnull(Series(df, column)[i])
         THEN Raise(OnlyNulls(column))
    ELSE Return(Frac(SumSeq(SeriesDropna(Series(df, column))), len(df)))

\* What calculate_mean(column) returns or raises on self.data = df.
CalculateMeanResult(df, column) ==
    IF df.none THEN Raise(NoDataLoaded)
    ELSE IF column \notin Range(df.columns) THEN Raise(ColumnNotFound(column))
    ELSE IF ~IsNumber(DtypeOf(df, column)) THEN Raise(NotNumeric(column))
    ELSE IF \A i \in 1..len(df) : isnull(Series(df, column)[i])
         THEN Raise(OnlyNulls(column))
    ELSE LET valid_data == SeriesDropna(Series(df, column))
         IN  IF Len(valid_data) = 0
             THEN Raise(Exc("ValueError", <<"No valid numeric values in column", column>>))
             ELSE Return(SeriesMean(valid_data))

\* A calculate_mean that drops the null rows of the table itself.
calculate_mean_DropsInPlace(column) ==
    /\ call' = <<"calculate_mean", <<column>>>>
    /\ result' = CalculateMeanResult(data, column)
    /\ data' = IF data.none THEN data ELSE dropna(data)
    /\ UNCHANGED <<file, column_types>>

calculate_mean(column) ==
    /\ call' = <<"calculate_mean", <<column>>>>
    /\ result' = CalculateMeanResult(data, column)
    /\ UNCHANGED <<file, data, column_types>>

\* ---------------------------------------------------------------- find_max
\* find_max testing for nulls before it tests the dtype.
FindMaxResult_NullsFirst(df, column) ==
    IF df.none THEN Raise(NoDataLoaded)
    ELSE IF column \notin Range(df.columns) THEN Raise(ColumnNotFound(column))
    ELSE IF \A i \in 1..len(df) : isnull(Series(df, column)[i])
         THEN Raise(OnlyNulls(column))
    ELSE IF ~IsNumber(DtypeOf(df, column)) THEN Raise(NotNumeric(column))
    ELSE Return(SeriesMax(SeriesDropna(Series(df, column))))

\* What find_max(column) returns or raises on self.data = df.
FindMaxResult(df, column) ==
    IF df.none THEN Raise(NoDataLoaded)
    ELSE IF column \notin Range(df.columns) THEN Raise(ColumnNotFound(column))
    ELSE IF ~IsNumber(DtypeOf(df, column)) THEN Raise(NotNumeric(column))
    ELSE IF \A i \in 1..len(df) : isnull(Series(df, column)[i])
         THEN Raise(OnlyNulls(column))
    ELSE LET valid_data == SeriesDropna(Series(df, column))
         IN  Return(SeriesMax(valid_data))

find_max(column) ==
    /\ call' = <<"find_max", <<column>>>>
    /\ result' = FindMaxResult(data, column)
    /\ UNCHANGED <<file, data, column_types>>

\* ---------------------------------------------------------------- get_summary_stats
\* A selection of numeric columns that takes boolean columns for numeric.
NumericColumns_WithBool(df) ==
    LET Test(c) == IsNumber(DtypeOf(df, c)) \/ DtypeOf(df, c) = "bool"
    IN  SelectSeq(df.columns, Test)

\* df.select_dtypes(include=[np.number]).columns: the numeric columns, in order.
NumericColumns(df) ==
    LET Test(c) == IsNumber(DtypeOf(df, c))
    IN  SelectSeq(df.columns, Test)

SummaryOf(s) ==
    [mean |-> SeriesMean(s), max |-> SeriesMax(s), min |-> SeriesMin(s),
     std |-> SeriesStd(s), count |-> SeriesCount(s)]

\* The summary dict, as the sequence of its (column, statistics) items.
Summary(df) ==
    LET nc == NumericColumns(df)
    IN  [k \in 1..Len(nc) |-> <<nc[k], SummaryOf(Series(df, nc[k]))>>]

get_summary_stats ==
    /\ call' = <<"get_summary_stats", <<>>>>
    /\ result' = IF data.none THEN Raise(NoDataLoaded) ELSE Return(Summary(data))
    /\ UNCHANGED <<file, data, column_types>>

\* ---------------------------------------------------------------- shape, columns
\* A shape that gives the columns first.
ShapeOf_Transposed(df) == IF df.none THEN <<0, 0>> ELSE <<Len(df.columns), len(df)>>

\* self.data.shape if self.data is not None else (0, 0)
ShapeOf(df) == IF df.none THEN <<0, 0>> ELSE <<len(df), Len(df.columns)>>

\* list(self.data.columns) if self.data is not None else []
ColumnsOf(df) == IF df.none THEN <<>> ELSE df.columns

shape ==
    /\ call' = <<"shape", <<>>>>
    /\ result' = Return(ShapeOf(data))
    /\ UNCHANGED <<file, data, column_types>>

columns ==
    /\ call' = <<"columns", <<>>>>
    /\ result' = Return(ColumnsOf(data))
    /\ UNCHANGED <<file, data, column_types>>

\* ---------------------------------------------------------------- the caller
\* Column names a caller passes (b is absent from a one-column data.csv).
ColumnArgs == {"a", "b"}

\* Values a caller filters by.
Probes == {NaN, <<"i", 1>>, <<"s", 1>>}

Init ==
    /\ file \in Files
    /\ data = None
    /\ column_types = <<>>
    /\ call = <<"__init__", <<>>>>
    /\ result = Return("None")

Next ==
    \/ \E path \in Paths : load_data(path)
    \/ clean_data
    \/ \E column \in ColumnArgs, value \in Probes : filter_by_value(column, value)
    \/ \E column \in ColumnArgs : calculate_mean(column)
    \/ \E column \in ColumnArgs : find_max(column)
    \/ get_summary_stats
    \/ shape
    \/ columns

Spec == Init /\ [][Next]_vars

\* ---------------------------------------------------------------- vocabulary of the claims
Loaded == ~data.none

\* The error kinds of the specification, as the exceptions the code raises.
NoDataLoadedError == Raise(NoDataLoaded)
ColumnNotFoundError(column) == Raise(ColumnNotFound(column))
NotNumericError(column) == Raise(NotNumeric(column))
AllNullError(column) == Raise(OnlyNulls(column))

\* Every column of df has one cell per row.
Aligned(df) ==
    /\ Len(df.values) = Len(df.columns)
    /\ Len(df.dtypes) = Len(df.columns)
    /\ \A j \in 1..Len(df.columns) : Len(df.values[j]) = len(df)

\* Row i of df, across its columns.
RowOf(df, i) == [j \in 1..Len(df.columns) |-> df.values[j][i]]

RowHasNull(df, i) == \E j \in 1..Len(df.columns) : df.values[j][i] = NaN

\* Position of label x in an index.
Pos(index, x) == CHOOSE i \in 1..Len(index) : index[i] = x

\* new holds exactly the rows of old at the positions keep, unchanged and in
\* their original order.
SurvivorsAre(old, new, keep) ==
    /\ new.columns = old.columns
    /\ Aligned(new)
    /\ len(new) = Cardinality(keep)
    /\ \A k \in 1..len(new) :
         \E i \in keep : new.index[k] = old.index[i] /\ RowOf(new, k) = RowOf(old, i)
    /\ \A k1, k2 \in 1..len(new) :
         k1 < k2 => Pos(old.index, new.index[k1]) < Pos(old.index, new.index[k2])

\* ---------------------------------------------------------------- C1
\* C1: in every state reached by load, clean and filter_by_value calls, every
\* column of the loaded table holds exactly row_count cells (and so exactly
\* row_count null-mask entries): the columns stay row-aligned.
C1_RowAligned == Loaded => Aligned(data)

\* A two-column table from which a successful filter removed some rows and kept others.
C1_Witness ==
    /\ call[1] = "filter_by_value"
    /\ result.status = "return"
    /\ Len(data.columns) = 2
    /\ 0 < len(data)
    /\ len(data) < Len(file.lines)

\* ---------------------------------------------------------------- C2
\* C2: clean() on a loaded table removes exactly the rows with a null in some
\* column, keeps the other rows in their original order, leaves no null cell,
\* and returns the new row count.
C2_CleanRemovesNullRows ==
    [][(call'[1] = "clean_data" /\ Loaded) =>
          /\ SurvivorsAre(data, data', {i \in 1..len(data) : ~RowHasNull(data, i)})
          /\ \A i \in 1..len(data') : ~RowHasNull(data', i)
          /\ result' = Return(len(data'))]_vars

\* ---------------------------------------------------------------- C3
\* C3: on a loaded table, two clean() calls in a row both succeed and return
\* the same row count, and the second leaves the table unchanged.
C3_CleanIdempotent ==
    [][(call[1] = "clean_data" /\ call'[1] = "clean_data" /\ Loaded) =>
          /\ result.status = "return"
          /\ result'.status = "return"
          /\ result'.value = result.value
          /\ data' = data]_vars

\* ---------------------------------------------------------------- C4
\* C4: clean() on a loaded table with zero rows returns 0 and raises nothing.
C4_CleanZeroRows ==
    [][(call'[1] = "clean_data" /\ Loaded /\ len(data) = 0) =>
          result' = Return(0)]_vars

\* ---------------------------------------------------------------- C5
\* C5: when filter_by_value(col, v) succeeds on a loaded table that has column
\* col, the surviving rows are exactly the prior rows whose col cell is
\* non-null and equal to v, unchanged and in their original order (so every
\* remaining row has col == v and every removed row had col != v or a null
\* col cell), and the call returns the number of surviving rows.
C5_FilterCorrect ==
    [][(/\ call'[1] = "filter_by_value"
        /\ Loaded
        /\ call'[2][1] \in Range(data.columns)
        /\ result'.status = "return") =>
          LET col == call'[2][1]
              v == call'[2][2]
              cells == Series(data, col)
          IN  /\ SurvivorsAre(data, data',
                     {i \in 1..len(data) : cells[i] # NaN /\ Eq(cells[i], v)})
              /\ \A k \in 1..len(data') : Eq(Series(data', col)[k], v)
              /\ result'.value = len(data')]_vars

\* Filtering the sample file by a = 1 kept its first and last rows and removed
\* a row whose a cell is null and a row whose a cell is 2.
C5_Witness ==
    /\ call = <<"filter_by_value", <<"a", <<"i", 1>>>>>>
    /\ result = Return(2)
    /\ data.index = <<0, 3>>
    /\ Len(file.lines) = 4

\* ---------------------------------------------------------------- C6
\* C6: while no load has succeeded (self.data is None, which only a successful
\* load ends), clean, filter_by_value, calculate_mean, find_max and
\* get_summary_stats each fail with NoDataLoadedError whatever their arguments,
\* and, like a failed load, leave the table unloaded.
QueriesAndMutations ==
    {"clean_data", "filter_by_value", "calculate_mean", "find_max", "get_summary_stats"}

C6_UnloadedFails ==
    [][~Loaded =>
          /\ call'[1] \in QueriesAndMutations =>
                result' = NoDataLoadedError /\ ~Loaded' /\ column_types' = <<>>
          /\ (call'[1] = "load_data" /\ result'.status = "raise") =>
                ~Loaded' /\ column_types' = <<>>
          /\ Loaded' => call'[1] = "load_data" /\ result' = Return(TRUE)]_vars

\* filter_by_value on an unloaded table, which has no column: the no-data
\* check came before the column check.
C6_Witness ==
    /\ ~Loaded
    /\ call[1] = "filter_by_value"
    /\ call[2][1] \notin Range(data.columns)
    /\ result = NoDataLoadedError

\* ---------------------------------------------------------------- C7
\* C7: when load, clean or filter_by_value raises, the table is as it was
\* before the call: same rows in the same order, same column names, same
\* dtypes and same cached dtypes.
C7_FailureLeavesTable ==
    [][(/\ call'[1] \in {"load_data", "clean_data", "filter_by_value"}
        /\ result'.status = "raise") =>
          data' = data /\ column_types' = column_types]_vars

\* A failed load on a table that holds rows.
C7_Witness ==
    /\ call[1] = "load_data"
    /\ result.status = "raise"
    /\ Loaded
    /\ len(data) > 0

\* ---------------------------------------------------------------- C8
\* The column a calculate_mean or find_max call names.
Arg == call[2][1]

Numeric(df, column) == DtypeOf(df, column) \in {"int64", "float64"}

\* Positions of the non-null cells of a column.
NonNull(df, column) == {i \in 1..len(df) : Series(df, column)[i] # NaN}

\* C8: calculate_mean and find_max make their checks in the order
\* NoDataLoaded, ColumnNotFound, NotNumeric, AllNull: on a loaded table and an
\* existing column they fail with NotNumericError iff the dtype is not integer
\* or float, otherwise with AllNullError iff the column has no non-null value
\* (a table of zero rows included), and otherwise succeed.
C8_ReductionErrors ==
    call[1] \in {"calculate_mean", "find_max"} =>
        /\ ~Loaded => result = NoDataLoadedError
        /\ (Loaded /\ Arg \notin Range(data.columns)) =>
               result = ColumnNotFoundError(Arg)
        /\ (Loaded /\ Arg \in Range(data.columns)) =>
               /\ result = NotNumericError(Arg) <=> ~Numeric(data, Arg)
               /\ Numeric(data, Arg) =>
                     (result = AllNullError(Arg) <=> NonNull(data, Arg) = {})
               /\ (Numeric(data, Arg) /\ NonNull(data, Arg) # {}) =>
                     result.status = "return"

\* find_max on an integer column of a table a filter left with zero rows.
C8_Witness ==
    /\ call[1] = "find_max"
    /\ Loaded
    /\ Arg \in Range(data.columns)
    /\ DtypeOf(data, Arg) = "int64"
    /\ len(data) = 0
    /\ result = AllNullError(Arg)

\* ---------------------------------------------------------------- C9
RECURSIVE SumOver(_, _)
SumOver(S, s) ==
    IF S = {} THEN 0
    ELSE LET i == CHOOSE i \in S : TRUE
         IN  s[i][2] + SumOver(S \ {i}, s)

\* A column that gains a null cell: an integer column becomes a float column
\* and a boolean column an object column, as at load time.
DtypeWithNull(dtype) ==
    CASE dtype = "int64" -> "float64"
      [] dtype = "bool" -> "object"
      [] OTHER -> dtype

CellWithNull(cell, dtype) ==
    IF dtype = "int64" /\ cell # NaN THEN <<"f", cell[2]>> ELSE cell

InsertAt(s, p, x) == SubSeq(s, 1, p) \o <<x>> \o SubSeq(s, p + 1, Len(s))

\* df with one more row, all of whose cells are null, after its p-th row.
InsertNullRow(df, p) ==
    DataFrame(df.columns,
              InsertAt(df.index, p, len(df)),
              [j \in 1..Len(df.columns) |-> DtypeWithNull(df.dtypes[j])],
              [j \in 1..Len(df.columns) |->
                  InsertAt([i \in 1..len(df) |-> CellWithNull(df.values[j][i], df.dtypes[j])],
                           p, NaN)])

\* C9: for a numeric column with a non-null value, calculate_mean returns the
\* sum of the non-null values divided by their count and find_max the largest
\* non-null value, as floats; and on the table with one more row that is null
\* in that column, wherever the row is put, both return the same.
C9_NullExclusion ==
    (/\ call[1] \in {"calculate_mean", "find_max"}
     /\ Loaded
     /\ Arg \in Range(data.columns)
     /\ Numeric(data, Arg)
     /\ NonNull(data, Arg) # {}) =>
        LET s == Series(data, Arg)
            nn == NonNull(data, Arg)
            r == result.value
        IN  /\ result.status = "return"
            /\ r[2] > 0
            /\ call[1] = "calculate_mean" =>
                  /\ r[1] * Cardinality(nn) = SumOver(nn, s) * r[2]
                  /\ \A p \in 0..len(data) :
                        CalculateMeanResult(InsertNullRow(data, p), Arg) = result
            /\ call[1] = "find_max" =>
                  /\ r[2] = 1
                  /\ \E i \in nn : s[i][2] = r[1]
                  /\ \A i \in nn : s[i][2] <= r[1]
                  /\ \A p \in 0..len(data) :
                        FindMaxResult(InsertNullRow(data, p), Arg) = result

\* The mean of column a of the sample file, 4/3: three values and a null.
C9_Witness ==
    /\ call = <<"calculate_mean", <<"a">>>>
    /\ result = Return(<<4, 3>>)
    /\ len(data) = 4
    /\ Cardinality(NonNull(data, "a")) = 3

\* ---------------------------------------------------------------- C10
NumericNames(df) == {c \in Range(df.columns) : Numeric(df, c)}

\* C10: get_summary_stats on a loaded table returns, never raises; its result
\* has one entry for exactly each column of numeric dtype; an entry's count is
\* the number of non-null values of its column; and a numeric column with no
\* non-null value has count 0 and NaN statistics, where calculate_mean and
\* find_max raise AllNullError.
C10_Summary ==
    (call[1] = "get_summary_stats" /\ Loaded) =>
        /\ result.status = "return"
        /\ Len(result.value) = Cardinality(NumericNames(data))
        /\ {result.value[k][1] : k \in 1..Len(result.value)} = NumericNames(data)
        /\ \A k \in 1..Len(result.value) :
             LET c == result.value[k][1]
                 st == result.value[k][2]
             IN  /\ st.count = Cardinality(NonNull(data, c))
                 /\ st.count = 0 =>
                       /\ st.mean = NaNFloat /\ st.max = NaNFloat
                       /\ st.min = NaNFloat /\ st.std = NaNFloat
                       /\ CalculateMeanResult(data, c) = AllNullError(c)
                       /\ FindMaxResult(data, c) = AllNullError(c)

\* A summary of a table with rows that leaves a non-numeric column out and
\* has an entry of count 0.
C10_Witness ==
    /\ call[1] = "get_summary_stats"
    /\ Loaded
    /\ len(data) > 0
    /\ Len(result.value) < Len(data.columns)
    /\ \E k \in 1..Len(result.value) : result.value[k][2].count = 0

\* ---------------------------------------------------------------- C11
\* C11: shape and column_names always return and change nothing: on an
\* unloaded table they return (0, 0) and the empty sequence, and on a loaded
\* one, whatever calls came before, (row_count, column_count) and the ordered
\* column names of the table as it is.
C11_Accessors ==
    [][call'[1] \in {"shape", "columns"} =>
          /\ data' = data /\ column_types' = column_types
          /\ result'.status = "return"
          /\ call'[1] = "shape" =>
                IF Loaded
                THEN /\ result'.value[2] = Len(data.columns)
                     /\ \A j \in 1..Len(data.columns) :
                           result'.value[1] = Len(data.values[j])
                ELSE result'.value = <<0, 0>>
          /\ call'[1] = "columns" =>
                IF Loaded
                THEN /\ Len(result'.value) = Len(data.columns)
                     /\ \A j \in 1..Len(data.columns) :
                           result'.value[j] = data.columns[j]
                ELSE result'.value = <<>>]_vars

\* shape of a two-column table that a clean or a filter left with one row of
\* several.
C11_Witness ==
    /\ call[1] = "shape"
    /\ result = Return(<<1, 2>>)
    /\ Len(file.lines) > 1
    /\ data.columns = file.header

\* ---------------------------------------------------------------- C12
SourceUnavailableError == Raise(FileNotFound)
EmptyInputError == Raise(FileEmpty)
InvalidInputError == Raise(ErrorLoading)

\* The file a readable path names.
SourceOf(path) == IF path = "data.csv" THEN file ELSE HeaderFile

\* df holds the rows and columns of the file f: its header as column names,
\* one row per data line in line order, a null for every NA marker and the
\* value of every other field.
HoldsSource(df, f) ==
    /\ ~df.none
    /\ df.columns = f.header
    /\ Aligned(df)
    /\ df.index = [i \in 1..Len(f.lines) |-> i - 1]
    /\ \A i \in 1..Len(f.lines), j \in 1..Len(f.header) :
          LET field == f.lines[i][j]
              cell == df.values[j][i]
          IN  /\ field = NA <=> cell = NaN
              /\ field # NA => Eq(cell, field)

CacheMatches(cache, df) ==
    cache = [j \in 1..Len(df.columns) |-> <<df.columns[j], df.dtypes[j]>>]

\* C13: a clean or a filter_by_value that succeeds changes only the row set:
\* the ordered column names, the dtype of every column and the dtype cached
\* for it are what they were before the call, also when no row is left.
C13_DtypesKept ==
    [][(/\ call'[1] \in {"clean_data", "filter_by_value"}
        /\ result'.status = "return") =>
          /\ data'.columns = data.columns
          /\ data'.dtypes = data.dtypes
          /\ column_types' = column_types
          /\ CacheMatches(column_types', data')]_vars

\* A filter that left no row of a table with an integer column.
C13_Witness ==
    /\ call[1] = "filter_by_value"
    /\ result = Return(0)
    /\ Len(file.lines) > 0
    /\ data.columns = file.header
    /\ data.dtypes[1] = "int64"
    /\ column_types[1] = <<"a", "int64">>

\* ---------------------------------------------------------------- C14
ReadOnlyCalls == {"calculate_mean", "find_max", "get_summary_stats"}

\* C14: calculate_mean, find_max and get_summary_stats, whether they return or
\* raise, leave the rows, the column names, the dtypes and the cached dtypes as
\* they were (and the file too): all that load, clean and filter_by_value
\* read, so what those return is the same with or without them.
C14_ReadOnly ==
    [][call'[1] \in ReadOnlyCalls =>
          data' = data /\ column_types' = column_types /\ file' = file]_vars

\* A calculate_mean that raised on a table with rows and a null.
C14_Witness ==
    /\ call[1] = "calculate_mean"
    /\ result.status = "raise"
    /\ Loaded
    /\ len(data) > 0
    /\ \E i \in 1..len(data) : RowHasNull(data, i)

\* ---------------------------------------------------------------- C15
\* clean_data() completes on df.
CleanCompletes(df) == CleanDataResult(df).status = "return"

\* C15: on a loaded table, for every column col it has and non-null value v,
\* clean() then filter_by_value(col, v) leaves the same rows in the same order
\* as filter_by_value(col, v) then clean(), whenever the clean of each order
\* completes; and two filter_by_value calls on different columns leave the
\* same rows in either order.
C15_Commute ==
    Loaded =>
        /\ \A col \in Range(data.columns), v \in Probes \ {NaN} :
              LET filtered == FilterFrame(data, col, v)
              IN  (CleanCompletes(data) /\ CleanCompletes(filtered)) =>
                     FilterFrame(dropna(data), col, v) = dropna(filtered)
        /\ \A c1, c2 \in Range(data.columns), v1, v2 \in Probes :
              c1 # c2 =>
                 FilterFrame(FilterFrame(data, c1, v1), c2, v2)
                    = FilterFrame(FilterFrame(data, c2, v2), c1, v1)

\* The sample file cleaned and then filtered by a = 1: its first row is left,
\* as when it is filtered (two rows left) and then cleaned.
C15_Witness ==
    /\ call = <<"filter_by_value", <<"a", <<"i", 1>>>>>>
    /\ result = Return(1)
    /\ Len(file.lines) = 4
    /\ data.index = <<0>>
    /\ LET filtered == FilterFrame(ParseFile(file), "a", <<"i", 1>>)
       IN  /\ len(filtered) = 2
           /\ CleanCompletes(filtered)
           /\ data = dropna(filtered)

=============================================================================
